---- MODULE Spec2Model ----
(***************************************************************************)
(* A model of AwsStorageService (src/src/services/aws-storage.ts): the     *)
(* resolution of the CloudFront/S3 configuration (initAwsGlobals and its   *)
(* helpers), the key/URL codec (getKeyFromFile, getUrlFromKey, and         *)
(* getKeyFromUrl of src/src/services/s3.ts) and the operations upload,    *)
(* uploadProtected, delete, getDownloadStream and getPresignedDownloadUrl, *)
(* as asynchronous tasks that suspend at every call of an AWS client.      *)
(*                                                                         *)
(* JavaScript strings that the code concatenates, searches or rewrites are *)
(* sequences of one-character strings.  Identifiers that the code only     *)
(* compares with === (origin ids, path patterns, viewer policies) are      *)
(* TLA+ strings.  The empty sequence stands for an absent (undefined)      *)
(* string: every test the code makes on such a value is a truthiness test, *)
(* and a template literal renders it as "undefined" (Tpl).                 *)
(***************************************************************************)
EXTENDS Naturals, Sequences, FiniteSets, TLC

VARIABLES
  options,                 \* the readonly fields set by the constructor
  bucketName_,             \* this.bucketName_
  cloudFrontDistribution_, \* this.cloudFrontDistribution_
  s3Origin_,               \* this.s3Origin_
  baseUrl_,                \* this.baseUrl_
  cacheBehavior_,          \* this.cacheBehavior_
  lastInit,                \* history: the latest completed run of initAwsGlobals
  ops,                     \* the operations in flight, one per task slot
  nStarted,                \* history: number of operations started
  codec                    \* the latest application of the key/URL codec

vars == <<options, bucketName_, cloudFrontDistribution_, s3Origin_, baseUrl_,
          cacheBehavior_, lastInit, ops, nStarted, codec>>

----------------------------------------------------------------------------
(* Bounds of the model. *)

\* Longest Origins.Items list of a descriptor.
MaxOrigins == 2

\* Longest CacheBehaviors.Items list of a descriptor.
MaxBehaviors == 1

\* Number of operations one behaviour starts.
MaxOps == 2

----------------------------------------------------------------------------
(* JavaScript values. *)

Undefined == [undefined |-> TRUE]
Null == [null |-> TRUE]
Absent == << >>

Truthy(s) == s # Absent

\* A template literal `${s}` of a possibly undefined string.
Tpl(s) == IF s = Absent THEN <<"u","n","d","e","f","i","n","e","d">> ELSE s

\* String.prototype.endsWith
EndsWith(s, suf) ==
  /\ Len(suf) <= Len(s)
  /\ SubSeq(s, Len(s) - Len(suf) + 1, Len(s)) = suf

\* The positions at which pat occurs in s.
Occurrences(s, pat) ==
  {i \in 1..(Len(s) + 1) :
     /\ i + Len(pat) - 1 <= Len(s)
     /\ SubSeq(s, i, i + Len(pat) - 1) = pat}

Min(S) == CHOOSE m \in S : \A k \in S : m <= k

\* String.prototype.replace(pat, rep) with a string pattern: the first
\* occurrence only.
ReplaceFirst(s, pat, rep) ==
  IF Occurrences(s, pat) = {} THEN s
  ELSE LET i == Min(Occurrences(s, pat))
       IN SubSeq(s, 1, i - 1) \o rep \o SubSeq(s, i + Len(pat), Len(s))

\* s.replace(/^\//, '')
StripLeadingSlash(s) ==
  IF Len(s) > 0 /\ s[1] = "/" THEN SubSeq(s, 2, Len(s)) ELSE s

\* Whether new RegExp('^' + pat) matches s.  Of the characters the model
\* uses, only "." is a regular-expression metacharacter (any character).
RegExpPrefixMatches(pat, s) ==
  /\ Len(pat) <= Len(s)
  /\ \A i \in 1..Len(pat) : pat[i] = "." \/ pat[i] = s[i]

\* s.replace(new RegExp('^' + pat), '')
RegExpStripPrefix(s, pat) ==
  IF RegExpPrefixMatches(pat, s) THEN SubSeq(s, Len(pat) + 1, Len(s)) ELSE s

RECURSIVE encodeURI(_)
\* encodeURI: of the characters the model uses only the space is escaped.
encodeURI(s) ==
  IF s = << >> THEN << >>
  ELSE (IF Head(s) = " " THEN <<"%","2","0">> ELSE <<Head(s)>>) \o encodeURI(Tail(s))

\* Array.prototype.find: the first element of items at one of the indices
\* in matching, else undefined.
Find(items, matching) ==
  IF matching = {} THEN Undefined ELSE items[Min(matching)]

Includes(items, x) == \E i \in 1..Len(items) : items[i] = x

----------------------------------------------------------------------------
(* The strings of the model. *)

S3Suffix == <<".","s","3",".","a","m","a","z","o","n","a","w","s",".","c","o","m">>
SchemeSep == <<":","/","/">>
Http == <<"h","t","t","p">>
Https == <<"h","t","t","p","s">>

BucketB == <<"b">>
BucketC == <<"c">>
CfDomain == <<"c","f",".","n","e","t">>
OtherDomain == <<"x",".","i","o">>
AliasD == <<"d",".","i","o">>
AliasE == <<"e",".","i","o">>
PathAssets == <<"/","a","s","s","e","t","s">>
PathX == <<"/","x">>
NameA == <<"a",".","p","n","g">>
NameSpace == <<"p"," ","q">>
NameDir == <<"d","/","n">>

----------------------------------------------------------------------------
(* The configuration resolution. *)

\* What a thrown error leaves in place of a value.
Thrown == [thrown |-> TRUE]

\* cloudFrontClient_.send(GetDistributionCommand) that rejects.
Rejected == [rejected |-> TRUE]

IsOrigin(o) == o # Undefined /\ o # Null

\* An origin id that is undefined: a string no origin has as its Id.
UndefinedId == "<undefined>"

\* A path pattern that is not supplied.
NoPattern == ""

\* The three fields every resolution assigns.
Config(baseUrl, s3Origin, cacheBehavior) ==
  [baseUrl_ |-> baseUrl, s3Origin_ |-> s3Origin, cacheBehavior_ |-> cacheBehavior]

\* getCloudFrontDistribution, given what send() gave: the Distribution of
\* the response, or a throw when send() rejected or gave no response.
getCloudFrontDistribution(response) ==
  IF response = Rejected \/ response = Null THEN Thrown
  ELSE response.Distribution

\* The Origin that setDefaults synthesizes from s3_origin_path.
SynthesizedOrigin(bucketName, s3OriginPath) ==
  [Id |-> "", DomainName |-> Tpl(bucketName) \o S3Suffix, OriginPath |-> s3OriginPath]

setDefaults(protocol, bucketName, s3OriginPath, domainName) ==
  Config(IF Truthy(domainName)
           THEN protocol \o SchemeSep \o domainName
           ELSE protocol \o SchemeSep \o Tpl(bucketName) \o S3Suffix,
         IF Truthy(s3OriginPath)
           THEN SynthesizedOrigin(bucketName, s3OriginPath)
           ELSE Null,
         Null)

setBaseUrl(protocol, bucketName, distribution, domainName) ==
  LET aliases == distribution.DistributionConfig.Aliases
      own == IF Truthy(distribution.DomainName)
               THEN distribution.DomainName
               ELSE Tpl(bucketName) \o S3Suffix
      baseUrl == IF Truthy(domainName) /\ Len(aliases) > 0 /\ Includes(aliases, domainName)
                   THEN domainName
                   ELSE own
  IN protocol \o SchemeSep \o baseUrl

\* The origins of the distribution that are S3 buckets.
S3Origins(distributionConfig) ==
  SelectSeq(distributionConfig.Origins, LAMBDA o : EndsWith(o.DomainName, S3Suffix))

\* distributionConfig.DefaultCacheBehavior?.TargetOriginId
DefaultTargetOriginId(distributionConfig) ==
  IF distributionConfig.DefaultCacheBehavior = Undefined
    THEN UndefinedId
    ELSE distributionConfig.DefaultCacheBehavior.TargetOriginId

\* setS3Origin that looks for the origin path among all the origins.
setS3OriginUnfiltered(distributionConfig, s3Origin) ==
  LET s3Origins == S3Origins(distributionConfig)
      defaultCacheBehaviorOriginId == DefaultTargetOriginId(distributionConfig)
      byDefault == Find(s3Origins, {i \in 1..Len(s3Origins) :
                                       s3Origins[i].Id = defaultCacheBehaviorOriginId})
      origin == IF byDefault # Undefined THEN byDefault
                ELSE IF Len(s3Origins) > 0 THEN s3Origins[1]
                ELSE Undefined
      foundOrigin == Find(distributionConfig.Origins,
                          {i \in 1..Len(distributionConfig.Origins) :
                             distributionConfig.Origins[i].OriginPath = s3Origin})
  IN IF Len(s3Origins) > 0 /\ Truthy(s3Origin)
       THEN (IF foundOrigin = Undefined /\ origin # Undefined THEN origin ELSE foundOrigin)
       ELSE origin

setS3Origin(distributionConfig, s3Origin) ==
  LET s3Origins == S3Origins(distributionConfig)
      defaultCacheBehaviorOriginId == DefaultTargetOriginId(distributionConfig)
      byDefault == Find(s3Origins, {i \in 1..Len(s3Origins) :
                                       s3Origins[i].Id = defaultCacheBehaviorOriginId})
      origin == IF byDefault # Undefined THEN byDefault
                ELSE IF Len(s3Origins) > 0 THEN s3Origins[1]
                ELSE Undefined
      foundOrigin == Find(s3Origins, {i \in 1..Len(s3Origins) :
                                         s3Origins[i].OriginPath = s3Origin})
  IN IF Len(s3Origins) > 0 /\ Truthy(s3Origin)
       THEN (IF foundOrigin = Undefined /\ origin # Undefined THEN origin ELSE foundOrigin)
       ELSE origin

\* validateS3BucketName that keeps a configured bucket name.
validateS3BucketNameKeepsConfigured(bucketName, origin) ==
  IF ~IsOrigin(origin) THEN [threw |-> TRUE, bucketName_ |-> bucketName]
  ELSE [threw |-> FALSE,
        bucketName_ |-> IF ~Truthy(bucketName)
                          THEN ReplaceFirst(origin.DomainName, S3Suffix, << >>)
                          ELSE bucketName]

\* validateS3BucketName: the bucket name it leaves in this.bucketName_, and
\* whether it threw (the TypeError of reading origin.DomainName of no origin,
\* which precedes the test of origin).
validateS3BucketName(bucketName, origin) ==
  IF ~IsOrigin(origin) THEN [threw |-> TRUE, bucketName_ |-> bucketName]
  ELSE LET originBucketName == ReplaceFirst(origin.DomainName, S3Suffix, << >>)
       IN [threw |-> FALSE,
           bucketName_ |-> IF ~Truthy(bucketName) THEN originBucketName
                           ELSE IF originBucketName # bucketName THEN originBucketName
                           ELSE bucketName]

\* s3Origin is this.s3Origin_, which initAwsGlobals assigned just before.
setCacheBehaviorPathPattern(distributionConfig, cacheBehaviorPathPattern, s3Origin) ==
  LET originId == IF IsOrigin(s3Origin) THEN s3Origin.Id ELSE UndefinedId
      defaultCacheBehavior ==
        IF distributionConfig.DefaultCacheBehavior # Undefined
          THEN [PathPattern |-> "*",
                TargetOriginId |-> distributionConfig.DefaultCacheBehavior.TargetOriginId,
                ViewerProtocolPolicy |->
                  distributionConfig.DefaultCacheBehavior.ViewerProtocolPolicy]
          ELSE [PathPattern |-> "*",
                TargetOriginId |-> originId,
                ViewerProtocolPolicy |-> "allow-all"]
      foundCacheBehavior ==
        Find(distributionConfig.CacheBehaviors,
             {i \in 1..Len(distributionConfig.CacheBehaviors) :
                distributionConfig.CacheBehaviors[i].PathPattern = cacheBehaviorPathPattern})
      cacheBehavior ==
        IF /\ Len(distributionConfig.CacheBehaviors) > 0
           /\ cacheBehaviorPathPattern # NoPattern
           /\ foundCacheBehavior # Undefined
          THEN foundCacheBehavior
          ELSE defaultCacheBehavior
  IN IF cacheBehavior.TargetOriginId # originId THEN defaultCacheBehavior ELSE cacheBehavior

\* A catch block that rethrows and leaves the fields as they are.
catchBlockRethrows(opts, bucketName) ==
  [threw |-> TRUE] @@ Config(baseUrl_, s3Origin_, cacheBehavior_)

\* The catch block of initAwsGlobals: the error is swallowed and the
\* defaults are set, without the domain name.
catchBlock(opts, bucketName) ==
  [threw |-> FALSE]
    @@ setDefaults(opts.protocol_, bucketName, opts.s3OriginPath_, Absent)

\* The body of initAwsGlobals from the return of send() on: the values of
\* bucketName_, cloudFrontDistribution_, baseUrl_, s3Origin_, cacheBehavior_
\* that it leaves, and whether it threw.  Without a distribution id nothing
\* is fetched and response is not read.
initAwsGlobals(opts, bucketName, distribution, response) ==
  LET got == getCloudFrontDistribution(response)
      caught(dist) ==
        [bucketName_ |-> bucketName, cloudFrontDistribution_ |-> dist]
          @@ catchBlock(opts, bucketName)
  IN IF ~Truthy(opts.cloudFrontDistributionId_)
       THEN [bucketName_ |-> bucketName, cloudFrontDistribution_ |-> distribution,
             threw |-> FALSE]
              @@ setDefaults(opts.protocol_, bucketName, opts.s3OriginPath_,
                             opts.domainName_)
     ELSE IF got = Thrown THEN caught(distribution)
     ELSE IF got = Undefined THEN caught(got)
     ELSE IF got.DistributionConfig = Undefined THEN caught(got)
     ELSE LET distributionConfig == got.DistributionConfig
              origin == setS3Origin(distributionConfig, opts.s3OriginPath_)
              validated == validateS3BucketName(bucketName, origin)
              bucket == validated.bucketName_
          IN IF validated.threw THEN caught(got)
             ELSE [bucketName_ |-> bucket, cloudFrontDistribution_ |-> got,
                   threw |-> FALSE]
                    @@ Config(setBaseUrl(opts.protocol_, bucket, got, opts.domainName_),
                              origin,
                              setCacheBehaviorPathPattern(distributionConfig,
                                opts.cacheBehaviorPathPattern_, origin))

----------------------------------------------------------------------------
(* The key/URL codec, over a configuration cfg with the fields baseUrl_,   *)
(* s3Origin_ and cacheBehavior_.                                           *)

\* this.s3Origin_?.OriginPath ?? ''
OriginPathOf(s3Origin) == IF IsOrigin(s3Origin) THEN s3Origin.OriginPath ELSE Absent

IsCacheBehavior(c) == c # Undefined /\ c # Null

\* getUrlFromKey that never rewrites the path.
getUrlFromKeyNoRewrite(cfg, key, relative) ==
  IF relative THEN <<"/">> \o key ELSE cfg.baseUrl_ \o <<"/">> \o key

getUrlFromKey(cfg, key, relative) ==
  LET originPath == OriginPathOf(cfg.s3Origin_)
      slashKey == <<"/">> \o key
      relativePath ==
        IF IsCacheBehavior(cfg.cacheBehavior_) /\ cfg.cacheBehavior_.PathPattern = "*"
             /\ Truthy(originPath)
          THEN RegExpStripPrefix(slashKey, originPath)
          ELSE slashKey
  IN IF relative THEN relativePath ELSE cfg.baseUrl_ \o relativePath

\* getKeyFromUrl that does not put the origin path back.
getKeyFromUrlNoOriginPath(cfg, url) ==
  StripLeadingSlash(ReplaceFirst(url, cfg.baseUrl_, << >>))

\* getKeyFromUrl that puts the origin path back whatever the cache behavior.
getKeyFromUrlAlwaysOriginPath(cfg, url) ==
  StripLeadingSlash(OriginPathOf(cfg.s3Origin_) \o ReplaceFirst(url, cfg.baseUrl_, << >>))

getKeyFromUrl(cfg, url) ==
  LET originPath == OriginPathOf(cfg.s3Origin_)
      stripped == ReplaceFirst(url, cfg.baseUrl_, << >>)
      relativePath ==
        IF IsCacheBehavior(cfg.cacheBehavior_) /\ cfg.cacheBehavior_.PathPattern = "*"
          THEN originPath \o stripped
          ELSE stripped
  IN StripLeadingSlash(relativePath)

\* getKeyFromFile that keeps the leading slash of the origin path.
getKeyFromFileKeepSlash(cfg, file) ==
  IF file = Null THEN << >>
  ELSE (IF Truthy(OriginPathOf(cfg.s3Origin_))
          THEN cfg.s3Origin_.OriginPath \o <<"/">>
          ELSE << >>) \o file.originalname

\* file is Null or a record with the field originalname.
getKeyFromFile(cfg, file) ==
  IF file = Null THEN << >>
  ELSE (IF Truthy(OriginPathOf(cfg.s3Origin_))
          THEN StripLeadingSlash(cfg.s3Origin_.OriginPath) \o <<"/">>
          ELSE << >>) \o file.originalname

----------------------------------------------------------------------------
(* The inputs: constructor options and GetDistribution responses. *)

DistributionId == <<"D">>
PatternImg == "img/*"
PatternVid == "vid/*"

Options ==
  [protocol_ : {Http, Https},
   s3_bucket : {Absent, BucketB},
   s3OriginPath_ : {Absent, PathAssets, PathX},
   domainName_ : {Absent, AliasD},
   cacheBehaviorPathPattern_ : {NoPattern, PatternImg},
   cloudFrontDistributionId_ : {Absent, DistributionId}]

\* s3_upload_options.ACL that is not configured (falsy).
UnsetACL == ""

\* The options the resolution and the codec do not read, left unconfigured.
Unconfigured ==
  [uploadOptions_ |-> [ACL |-> UnsetACL], downloadUrlDuration_ |-> Undefined,
   cloudFrontKeyPairId_ |-> Absent, cloudFrontKeyPrivateKey_ |-> Absent]

Origin(id, domainName, originPath) ==
  [Id |-> id, DomainName |-> domainName, OriginPath |-> originPath]

O1 == Origin("o1", BucketB \o S3Suffix, PathAssets)
O2 == Origin("o2", BucketC \o S3Suffix, Absent)
O3 == Origin("o3", OtherDomain, PathAssets)
O4 == Origin("o4", BucketC \o S3Suffix, PathAssets)

OriginPool == {O1, O2, O3, O4}

Behavior(pathPattern, targetOriginId) ==
  [PathPattern |-> pathPattern, TargetOriginId |-> targetOriginId,
   ViewerProtocolPolicy |-> "redirect-to-https"]

BehaviorPool == {Behavior(PatternImg, "o1"), Behavior(PatternImg, "o2"),
                 Behavior(PatternVid, "o1")}

DefaultBehavior(targetOriginId) ==
  [TargetOriginId |-> targetOriginId, ViewerProtocolPolicy |-> "redirect-to-https"]

\* The lists of at most n distinct elements of S.
ListsOf(S, n) ==
  UNION {{q \in [1..k -> S] : \A i, j \in 1..k : q[i] = q[j] => i = j} : k \in 0..n}

\* The ids of the origins of a list.
IdsOf(origins) == {origins[i].Id : i \in 1..Len(origins)}

\* The descriptors: a default cache behavior (or none) and cache behaviors
\* that target origins of the distribution.
DistributionConfigs ==
  UNION {
    [Aliases : {<< >>, <<AliasE>>, <<AliasE, AliasD>>},
     Origins : {origins},
     DefaultCacheBehavior : {Undefined} \cup {DefaultBehavior(t) : t \in IdsOf(origins)},
     CacheBehaviors : ListsOf({b \in BehaviorPool : b.TargetOriginId \in IdsOf(origins)},
                              MaxBehaviors)]
    : origins \in ListsOf(OriginPool, MaxOrigins)}

Distribution(distributionConfig) ==
  [DomainName |-> CfDomain, DistributionConfig |-> distributionConfig]

\* A response whose Distribution is d.
Response(d) == [Distribution |-> d]

\* The responses that carry no usable descriptor: send() rejects, gives no
\* response, a response without Distribution, or one without DistributionConfig.
FailedResponses ==
  {Rejected, Null, Response(Undefined),
   Response([DomainName |-> CfDomain, DistributionConfig |-> Undefined])}

Responses ==
  FailedResponses \cup {Response(Distribution(c)) : c \in DistributionConfigs}

\* Whether a response carries a well-formed descriptor.
IsDescriptor(r) ==
  /\ r \notin {Rejected, Null}
  /\ r.Distribution # Undefined
  /\ r.Distribution.DistributionConfig # Undefined

----------------------------------------------------------------------------
(* The state after construction. *)

NotRun == [run |-> FALSE]
NoCodec == [applied |-> FALSE]
Procs == {"t1", "t2"}

\* An operation: kind and file are the call, pc the await it is suspended at,
\* params the command input it built, data what the S3 send() gave,
\* invalidations the Items of the invalidation requests it sent,
\* invalidation what became of invalidateFile, result what it returned or threw.
IdleOp ==
  [kind |-> "none", pc |-> "idle", file |-> Null, params |-> Null,
   data |-> "pending", invalidations |-> << >>, invalidation |-> "none",
   result |-> [status |-> "none"]]

\* The fields after the constructor ran on the options o.
Constructed(o) ==
  /\ options = o
  /\ bucketName_ = o.s3_bucket
  /\ cloudFrontDistribution_ = Undefined
  /\ s3Origin_ = Undefined
  /\ baseUrl_ = Absent
  /\ cacheBehavior_ = Undefined
  /\ lastInit = NotRun
  /\ ops = [p \in Procs |-> IdleOp]
  /\ nStarted = 0
  /\ codec = NoCodec

Init == \E o \in Options : Constructed(o @@ Unconfigured)

\* The configuration the codec reads.
Cfg == Config(baseUrl_, s3Origin_, cacheBehavior_)

\* Assignments that leave the base URL as it was.
AssignKeepsBaseUrl(r, fetch, response) ==
  /\ bucketName_' = r.bucketName_
  /\ cloudFrontDistribution_' = r.cloudFrontDistribution_
  /\ s3Origin_' = r.s3Origin_
  /\ baseUrl_' = (IF baseUrl_ = Absent THEN Http \o SchemeSep \o Tpl(Absent) \o S3Suffix
                  ELSE baseUrl_)
  /\ cacheBehavior_' = r.cacheBehavior_
  /\ lastInit' = [run |-> TRUE, fetched |-> fetch, response |-> response,
                  threw |-> r.threw]

\* The assignments of one run of initAwsGlobals that gave r; fetch tells
\* whether it called getDistribution, which gave response.
Assign(r, fetch, response) ==
  /\ bucketName_' = r.bucketName_
  /\ cloudFrontDistribution_' = r.cloudFrontDistribution_
  /\ s3Origin_' = r.s3Origin_
  /\ baseUrl_' = r.baseUrl_
  /\ cacheBehavior_' = r.cacheBehavior_
  /\ lastInit' = [run |-> TRUE, fetched |-> fetch, response |-> response,
                  threw |-> r.threw]

----------------------------------------------------------------------------
(* One caller: a single resolution, then applications of the codec. *)

Files == {Null} \cup {[originalname |-> n] : n \in {NameA, NameSpace, NameDir}}

\* initAwsGlobals without a distribution id: setDefaults, no fetch.
ResolveWithoutDistribution ==
  /\ baseUrl_ = Absent
  /\ ~Truthy(options.cloudFrontDistributionId_)
  /\ Assign(initAwsGlobals(options, bucketName_, cloudFrontDistribution_, Null),
            FALSE, Null)
  /\ UNCHANGED <<options, ops, nStarted, codec>>

\* initAwsGlobals with a distribution id, send() giving the response r.
ResolveWithDistribution(r) ==
  /\ baseUrl_ = Absent
  /\ Truthy(options.cloudFrontDistributionId_)
  /\ Assign(initAwsGlobals(options, bucketName_, cloudFrontDistribution_, r), TRUE, r)
  /\ UNCHANGED <<options, ops, nStarted, codec>>

\* getKeyFromFile, getUrlFromKey and getKeyFromUrl on a file, under the
\* resolved configuration.
ApplyCodec(file) ==
  /\ baseUrl_ # Absent
  /\ codec = NoCodec
  /\ LET key == getKeyFromFile(Cfg, file)
         url == getUrlFromKey(Cfg, key, FALSE)
     IN codec' = [applied |-> TRUE, file |-> file, key |-> key, url |-> url,
                  relativeUrl |-> getUrlFromKey(Cfg, key, TRUE),
                  keyFromUrl |-> getKeyFromUrl(Cfg, url)]
  /\ UNCHANGED <<options, bucketName_, cloudFrontDistribution_, s3Origin_, baseUrl_,
                 cacheBehavior_, lastInit, ops, nStarted>>

NextCodec ==
  \/ ResolveWithoutDistribution
  \/ \E r \in Responses : ResolveWithDistribution(r)
  \/ \E file \in Files : ApplyCodec(file)

SpecCodec == Init /\ [][NextCodec]_vars

----------------------------------------------------------------------------
(* The codec under origin paths with two leading slashes or a trailing     *)
(* slash.                                                                  *)

PathDouble == <<"/","/","x">>
PathTrailing == <<"/","x","/">>

KeyOptions ==
  [protocol_ : {Https},
   s3_bucket : {BucketB},
   s3OriginPath_ : {Absent, PathAssets, PathDouble, PathTrailing},
   domainName_ : {Absent},
   cacheBehaviorPathPattern_ : {NoPattern},
   cloudFrontDistributionId_ : {Absent, DistributionId}]

InitKey == \E o \in KeyOptions : Constructed(o @@ Unconfigured)

SpecKey == InitKey /\ [][NextCodec]_vars

DescAssets ==
  Response(Distribution([Aliases |-> <<AliasE, AliasD>>, Origins |-> <<O1>>,
                         DefaultCacheBehavior |-> DefaultBehavior("o1"),
                         CacheBehaviors |-> << >>]))

DescOther ==
  Response(Distribution([Aliases |-> << >>, Origins |-> <<O2, O4>>,
                         DefaultCacheBehavior |-> DefaultBehavior("o2"),
                         CacheBehaviors |-> <<Behavior(PatternImg, "o2")>>]))

DescNoS3 ==
  Response(Distribution([Aliases |-> <<AliasE>>, Origins |-> <<O3>>,
                         DefaultCacheBehavior |-> DefaultBehavior("o3"),
                         CacheBehaviors |-> << >>]))

\* What getDistribution gives the operations.
OpResponses == {Rejected, DescAssets, DescOther, DescNoS3}

UploadFiles == {[originalname |-> NameA], [originalname |-> NameSpace]}
DeleteFiles == {[fileKey |-> <<"a","s","s","e","t","s","/">> \o NameA]}

\* What send() of an S3 command gives: a result, no result, or a rejection.
S3Outcomes == {"result", "none", "rejected"}

Failure(message) == [status |-> "error", error |-> message]

SetOp(p, op) == ops' = [ops EXCEPT ![p] = op]

UnchangedFields ==
  UNCHANGED <<bucketName_, cloudFrontDistribution_, s3Origin_, baseUrl_,
              cacheBehavior_, lastInit>>

\* After initAwsGlobals: the operation goes on, or fails if it threw.
AfterInit(op, r) ==
  IF r.threw THEN [op EXCEPT !.pc = "done", !.result = Failure("configuration")]
  ELSE [op EXCEPT !.pc = "resolved"]

\* upload(file), uploadProtected(file) and delete(file) up to their first
\* await: initAwsGlobals,
\* which without a distribution id sets the defaults and with one calls
\* getDistribution.
Start(p, kind, file) ==
  /\ ops[p].pc \in {"idle", "done"}
  /\ nStarted < MaxOps
  /\ nStarted' = nStarted + 1
  /\ LET op == [IdleOp EXCEPT !.kind = kind, !.file = file]
     IN IF ~Truthy(options.cloudFrontDistributionId_)
          THEN LET r == initAwsGlobals(options, bucketName_, cloudFrontDistribution_, Null)
               IN /\ Assign(r, FALSE, Null)
                  /\ SetOp(p, AfterInit(op, r))
          ELSE /\ SetOp(p, [op EXCEPT !.pc = "getDistribution"])
               /\ UnchangedFields
  /\ UNCHANGED <<options, codec>>

\* getDistribution returns or rejects: the rest of initAwsGlobals.
DistributionReturns(p, response) ==
  /\ ops[p].pc = "getDistribution"
  /\ LET r == initAwsGlobals(options, bucketName_, cloudFrontDistribution_, response)
     IN /\ Assign(r, TRUE, response)
        /\ SetOp(p, AfterInit(ops[p], r))
  /\ UNCHANGED <<options, nStarted, codec>>

\* getPutObjectCommandInput with the upload options spread after the ACL.
getPutObjectCommandInputSpreadLast(cfg, bucketName, uploadOptions, file, isProtected) ==
  [Bucket |-> bucketName, Key |-> getKeyFromFile(cfg, file),
   ACL |-> IF uploadOptions.ACL # UnsetACL THEN uploadOptions.ACL
           ELSE IF isProtected THEN "private" ELSE "public-read"]

\* getPutObjectCommandInput: Bucket, Key and ACL of the command.  The spread
\* of the upload options precedes ACL, which therefore overrides theirs.
getPutObjectCommandInput(cfg, bucketName, uploadOptions, file, isProtected) ==
  [Bucket |-> bucketName, Key |-> getKeyFromFile(cfg, file),
   ACL |-> IF isProtected THEN "private"
           ELSE IF uploadOptions.ACL # UnsetACL THEN uploadOptions.ACL
           ELSE "public-read"]

\* The kinds of operation that run uploadFile, and those that pass
\* isProtected = true.
UploadKinds == {"upload", "uploadProtected"}

\* upload after initAwsGlobals: uploadFile up to the send of PutObjectCommand.
SendPut(p) ==
  /\ ops[p].pc = "resolved"
  /\ ops[p].kind \in UploadKinds
  /\ SetOp(p, [ops[p] EXCEPT
                 !.pc = "putObject",
                 !.params = getPutObjectCommandInput(Cfg, bucketName_,
                              options.uploadOptions_, ops[p].file,
                              ops[p].kind = "uploadProtected")])
  /\ UnchangedFields
  /\ UNCHANGED <<options, nStarted, codec>>

\* uploadFile without the check of the result.
uploadNeverFailed(data) == FALSE

\* uploadFile: if (!data) throw
uploadFailed(data) == data = "none"

\* invalidateFile: whether it returns without a request.
invalidationSkipped(distributionId, path) ==
  ~Truthy(distributionId) \/ ~Truthy(path)

\* uploadFile's return value under the configuration cfg.
uploadResult(cfg, key) ==
  [status |-> "ok", url |-> getUrlFromKey(cfg, key, FALSE), baseUrl |-> cfg.baseUrl_]

\* The send of PutObjectCommand returns or rejects: the check of the result,
\* then invalidateFile up to the send of CreateInvalidationCommand.
PutReturns(p, data) ==
  /\ ops[p].pc = "putObject"
  /\ LET op == [ops[p] EXCEPT !.data = data]
         path == getUrlFromKey(Cfg, op.params.Key, TRUE)
     IN IF data = "rejected"
          THEN SetOp(p, [op EXCEPT !.pc = "done", !.result = Failure("rejected")])
        ELSE IF uploadFailed(data)
          THEN SetOp(p, [op EXCEPT !.pc = "done",
                                   !.result = Failure("File upload failed")])
        ELSE IF invalidationSkipped(options.cloudFrontDistributionId_, path)
          THEN SetOp(p, [op EXCEPT !.pc = "invalidateFile", !.invalidation = "skipped"])
        ELSE SetOp(p, [op EXCEPT !.pc = "createInvalidation",
                                 !.invalidation = "pending",
                                 !.invalidations = Append(@, encodeURI(path))])
  /\ UnchangedFields
  /\ UNCHANGED <<options, nStarted, codec>>

\* invalidateFile without the try/catch.
invalidateFileRethrows(outcome) == IF outcome = "rejected" THEN "throws" ELSE "returns"

\* invalidateFile's try/catch around the send: what it does with the outcome.
invalidateFileCatch(outcome) == "returns"

\* The send of CreateInvalidationCommand returns or rejects: the rest of
\* invalidateFile, then uploadFile's return.
InvalidationReturns(p, outcome) ==
  /\ ops[p].pc = "createInvalidation"
  /\ LET op == [ops[p] EXCEPT !.pc = "done", !.invalidation = outcome]
     IN IF invalidateFileCatch(outcome) = "throws"
          THEN SetOp(p, [op EXCEPT !.result = Failure("rejected")])
          ELSE SetOp(p, [op EXCEPT !.result = uploadResult(Cfg, op.params.Key)])
  /\ UnchangedFields
  /\ UNCHANGED <<options, nStarted, codec>>

\* invalidateFile returned without a request: uploadFile's return.
InvalidationSkipped(p) ==
  /\ ops[p].pc = "invalidateFile"
  /\ SetOp(p, [ops[p] EXCEPT !.pc = "done",
                             !.result = uploadResult(Cfg, ops[p].params.Key)])
  /\ UnchangedFields
  /\ UNCHANGED <<options, nStarted, codec>>

\* delete after initAwsGlobals: removeFile up to the send of DeleteObjectCommand.
SendDelete(p) ==
  /\ ops[p].pc = "resolved"
  /\ ops[p].kind = "delete"
  /\ SetOp(p, [ops[p] EXCEPT
                 !.pc = "deleteObject",
                 !.params = [Bucket |-> bucketName_, Key |-> ops[p].file.fileKey]])
  /\ UnchangedFields
  /\ UNCHANGED <<options, nStarted, codec>>

\* removeFile without the check of the result.
deletionNeverFailed(data) == FALSE

\* removeFile: if (!data) throw
deletionFailed(data) == data = "none"

\* The send of DeleteObjectCommand returns or rejects: the rest of removeFile.
DeleteReturns(p, data) ==
  /\ ops[p].pc = "deleteObject"
  /\ LET op == [ops[p] EXCEPT !.pc = "done", !.data = data]
     IN IF data = "rejected"
          THEN SetOp(p, [op EXCEPT !.result = Failure("rejected")])
        ELSE IF deletionFailed(data)
          THEN SetOp(p, [op EXCEPT !.result = Failure("File deletion failed")])
        ELSE SetOp(p, [op EXCEPT !.result = [status |-> "ok"]])
  /\ UnchangedFields
  /\ UNCHANGED <<options, nStarted, codec>>

Next ==
  \/ \E p \in Procs, file \in UploadFiles : Start(p, "upload", file)
  \/ \E p \in Procs, file \in DeleteFiles : Start(p, "delete", file)
  \/ \E p \in Procs, response \in OpResponses : DistributionReturns(p, response)
  \/ \E p \in Procs : SendPut(p)
  \/ \E p \in Procs, data \in S3Outcomes : PutReturns(p, data)
  \/ \E p \in Procs, outcome \in {"ok", "rejected"} : InvalidationReturns(p, outcome)
  \/ \E p \in Procs : InvalidationSkipped(p)
  \/ \E p \in Procs : SendDelete(p)
  \/ \E p \in Procs, data \in S3Outcomes : DeleteReturns(p, data)

Spec == Init /\ [][Next]_vars

----------------------------------------------------------------------------
(* Uploads and protected uploads under the configured upload options. *)

AclOptions ==
  [protocol_ : {Https},
   s3_bucket : {BucketB},
   s3OriginPath_ : {Absent, PathAssets},
   domainName_ : {Absent},
   cacheBehaviorPathPattern_ : {NoPattern},
   cloudFrontDistributionId_ : {Absent, DistributionId},
   uploadOptions_ : [ACL : {UnsetACL, "authenticated-read", "private"}],
   downloadUrlDuration_ : {Undefined},
   cloudFrontKeyPairId_ : {Absent},
   cloudFrontKeyPrivateKey_ : {Absent}]

InitAcl == \E o \in AclOptions : Constructed(o)

NextAcl ==
  \/ \E p \in Procs, file \in UploadFiles : Start(p, "upload", file)
  \/ \E p \in Procs, file \in UploadFiles : Start(p, "uploadProtected", file)
  \/ \E p \in Procs, response \in OpResponses : DistributionReturns(p, response)
  \/ \E p \in Procs : SendPut(p)
  \/ \E p \in Procs, data \in S3Outcomes : PutReturns(p, data)
  \/ \E p \in Procs, outcome \in {"ok", "rejected"} : InvalidationReturns(p, outcome)
  \/ \E p \in Procs : InvalidationSkipped(p)

SpecAcl == InitAcl /\ [][NextAcl]_vars

----------------------------------------------------------------------------
(* Uploads and deletes while every GetDistribution request fails.  Every   *)
(* request to an AWS client eventually returns or rejects, and the         *)
(* continuation of a settled await is eventually run by the event loop.    *)

OutageOptions ==
  [protocol_ : {Https},
   s3_bucket : {Absent, BucketB},
   s3OriginPath_ : {Absent, PathAssets},
   domainName_ : {Absent, AliasD},
   cacheBehaviorPathPattern_ : {NoPattern},
   cloudFrontDistributionId_ : {Absent, DistributionId},
   uploadOptions_ : [ACL : {UnsetACL}],
   downloadUrlDuration_ : {Undefined},
   cloudFrontKeyPairId_ : {Absent},
   cloudFrontKeyPrivateKey_ : {Absent}]

InitOutage == \E o \in OutageOptions : Constructed(o)

NextOutage ==
  \/ \E p \in Procs, file \in UploadFiles : Start(p, "upload", file)
  \/ \E p \in Procs, file \in DeleteFiles : Start(p, "delete", file)
  \/ \E p \in Procs, response \in FailedResponses : DistributionReturns(p, response)
  \/ \E p \in Procs : SendPut(p)
  \/ \E p \in Procs, data \in S3Outcomes : PutReturns(p, data)
  \/ \E p \in Procs, outcome \in {"ok", "rejected"} : InvalidationReturns(p, outcome)
  \/ \E p \in Procs : InvalidationSkipped(p)
  \/ \E p \in Procs : SendDelete(p)
  \/ \E p \in Procs, data \in S3Outcomes : DeleteReturns(p, data)

\* Every pending request settles and every continuation runs.
Progress ==
  \A p \in Procs :
    /\ WF_vars(\E response \in FailedResponses : DistributionReturns(p, response))
    /\ WF_vars(SendPut(p))
    /\ WF_vars(\E data \in S3Outcomes : PutReturns(p, data))
    /\ WF_vars(\E outcome \in {"ok", "rejected"} : InvalidationReturns(p, outcome))
    /\ WF_vars(InvalidationSkipped(p))
    /\ WF_vars(SendDelete(p))
    /\ WF_vars(\E data \in S3Outcomes : DeleteReturns(p, data))

SpecOutage == InitOutage /\ [][NextOutage]_vars /\ Progress

----------------------------------------------------------------------------
(* Uploads, deletes and downloads: the bucket of their S3 requests. *)

BucketOptions ==
  [protocol_ : {Https},
   s3_bucket : {Absent, BucketB},
   s3OriginPath_ : {Absent, PathAssets},
   domainName_ : {Absent},
   cacheBehaviorPathPattern_ : {NoPattern},
   cloudFrontDistributionId_ : {Absent, DistributionId},
   uploadOptions_ : [ACL : {UnsetACL}],
   downloadUrlDuration_ : {Undefined},
   cloudFrontKeyPairId_ : {Absent},
   cloudFrontKeyPrivateKey_ : {Absent}]

InitBucket == \E o \in BucketOptions : Constructed(o)

\* fileData of getDownloadStream.
DownloadFiles == {[fileKey |-> <<"a","s","s","e","t","s","/">> \o NameA]}

\* getDownloadStream after initAwsGlobals, up to the send of GetObjectCommand.
SendGet(p) ==
  /\ ops[p].pc = "resolved"
  /\ ops[p].kind = "getDownloadStream"
  /\ SetOp(p, [ops[p] EXCEPT
                 !.pc = "getObject",
                 !.params = [Bucket |-> bucketName_, Key |-> ops[p].file.fileKey]])
  /\ UnchangedFields
  /\ UNCHANGED <<options, nStarted, codec>>

\* getDownloadStream: if (!data?.Body) throw
fileNotFound(data) == data = "none"

\* The send of GetObjectCommand returns or rejects: the check of the body,
\* up to the await of transformToByteArray.
GetReturns(p, data) ==
  /\ ops[p].pc = "getObject"
  /\ LET op == [ops[p] EXCEPT !.data = data]
     IN IF data = "rejected"
          THEN SetOp(p, [op EXCEPT !.pc = "done", !.result = Failure("rejected")])
        ELSE IF fileNotFound(data)
          THEN SetOp(p, [op EXCEPT !.pc = "done", !.result = Failure("File not found")])
        ELSE SetOp(p, [op EXCEPT !.pc = "transformToByteArray"])
  /\ UnchangedFields
  /\ UNCHANGED <<options, nStarted, codec>>

\* transformToByteArray returns or rejects: the stream is returned.
TransformReturns(p, transformed) ==
  /\ ops[p].pc = "transformToByteArray"
  /\ SetOp(p, [ops[p] EXCEPT
                 !.pc = "done",
                 !.result = IF transformed THEN [status |-> "ok"]
                            ELSE Failure("rejected")])
  /\ UnchangedFields
  /\ UNCHANGED <<options, nStarted, codec>>

NextBucket ==
  \/ \E p \in Procs, file \in UploadFiles : Start(p, "upload", file)
  \/ \E p \in Procs, file \in DeleteFiles : Start(p, "delete", file)
  \/ \E p \in Procs, file \in DownloadFiles : Start(p, "getDownloadStream", file)
  \/ \E p \in Procs, response \in OpResponses : DistributionReturns(p, response)
  \/ \E p \in Procs : SendPut(p)
  \/ \E p \in Procs, data \in S3Outcomes : PutReturns(p, data)
  \/ \E p \in Procs, outcome \in {"ok", "rejected"} : InvalidationReturns(p, outcome)
  \/ \E p \in Procs : InvalidationSkipped(p)
  \/ \E p \in Procs : SendDelete(p)
  \/ \E p \in Procs, data \in S3Outcomes : DeleteReturns(p, data)
  \/ \E p \in Procs : SendGet(p)
  \/ \E p \in Procs, data \in S3Outcomes : GetReturns(p, data)
  \/ \E p \in Procs, transformed \in BOOLEAN : TransformReturns(p, transformed)

SpecBucket == InitBucket /\ [][NextBucket]_vars

----------------------------------------------------------------------------
(* Two uploads started before the first resolution, whose fetches return   *)
(* the same outcome.                                                       *)

TwinOptions ==
  [protocol_ : {Http, Https},
   s3_bucket : {Absent, BucketB},
   s3OriginPath_ : {Absent, PathAssets},
   domainName_ : {Absent, AliasD},
   cacheBehaviorPathPattern_ : {NoPattern, PatternImg},
   cloudFrontDistributionId_ : {DistributionId},
   uploadOptions_ : [ACL : {UnsetACL}],
   downloadUrlDuration_ : {Undefined},
   cloudFrontKeyPairId_ : {Absent},
   cloudFrontKeyPrivateKey_ : {Absent}]

InitTwin == \E o \in TwinOptions : Constructed(o)

\* An upload that starts while no run of initAwsGlobals has completed.
StartUnresolved(p, file) ==
  /\ ~lastInit.run
  /\ Start(p, "upload", file)

\* getDistribution gives what it gave the run before, if there was one.
SameDistributionReturns(p, response) ==
  /\ lastInit.run => lastInit.response = response
  /\ DistributionReturns(p, response)

NextTwin ==
  \/ \E p \in Procs, file \in UploadFiles : StartUnresolved(p, file)
  \/ \E p \in Procs, response \in OpResponses : SameDistributionReturns(p, response)
  \/ \E p \in Procs : SendPut(p)
  \/ \E p \in Procs, data \in S3Outcomes : PutReturns(p, data)
  \/ \E p \in Procs, outcome \in {"ok", "rejected"} : InvalidationReturns(p, outcome)

SpecTwin == InitTwin /\ [][NextTwin]_vars

----------------------------------------------------------------------------
(* Presigned download URLs. *)

KeyPairId == <<"K">>
PrivateKey == <<"P">>

SignOptions ==
  [protocol_ : {Https},
   s3_bucket : {BucketB},
   s3OriginPath_ : {Absent, PathAssets},
   domainName_ : {Absent},
   cacheBehaviorPathPattern_ : {NoPattern},
   cloudFrontDistributionId_ : {Absent, DistributionId},
   uploadOptions_ : [ACL : {UnsetACL}],
   downloadUrlDuration_ : {1, 2},
   cloudFrontKeyPairId_ : {Absent, KeyPairId},
   cloudFrontKeyPrivateKey_ : {Absent, PrivateKey}]

InitSign == \E o \in SignOptions : Constructed(o)

\* fileData of getPresignedDownloadUrl.
SignFiles == {[fileKey |-> <<"a","s","s","e","t","s","/">> \o NameA],
              [fileKey |-> NameSpace]}

\* new Date().getTime(), in milliseconds.
Nows == {0, 1500}

\* fileKey.split('/').at(-1)
LastSegment(fileKey) ==
  LET slashes == {i \in 1..Len(fileKey) : fileKey[i] = "/"}
      last == CHOOSE i \in slashes \cup {0} : \A j \in slashes : j <= i
  IN SubSeq(fileKey, last + 1, Len(fileKey))

\* An expiry that adds the duration as milliseconds.
expiresDateInMilliseconds(now, downloadUrlDuration) == now + downloadUrlDuration

\* new Date(now.getTime() + this.downloadUrlDuration_ * 1000), in milliseconds.
expiresDate(now, downloadUrlDuration) == now + downloadUrlDuration * 1000

\* Date.prototype.toISOString of a time in milliseconds.
toISOString(time) == [iso |-> time]

\* The call of getS3SignedUrl.
getS3SignedUrl(command, expiresIn) ==
  [signer |-> "getS3SignedUrl", command |-> command, expiresIn |-> expiresIn]

\* The call of getCloudFrontSignedUrl.
getCloudFrontSignedUrl(url, keyPairId, dateLessThan, privateKey) ==
  [signer |-> "getCloudFrontSignedUrl", url |-> url, keyPairId |-> keyPairId,
   dateLessThan |-> dateLessThan, privateKey |-> privateKey]

\* getPresignedDownloadUrl after initAwsGlobals: the call of the signer, whose
\* promise it returns; signed is what becomes of that promise.
Sign(p, now, signed) ==
  /\ ops[p].pc = "resolved"
  /\ ops[p].kind = "getPresignedDownloadUrl"
  /\ LET fileName == LastSegment(ops[p].file.fileKey)
         file == [originalname |-> fileName]
         params == getPutObjectCommandInput(Cfg, bucketName_, options.uploadOptions_,
                                            file, FALSE)
         call == IF ~Truthy(options.cloudFrontDistributionId_)
                   THEN getS3SignedUrl(params, options.downloadUrlDuration_)
                   ELSE getCloudFrontSignedUrl(
                          getUrlFromKey(Cfg, params.Key, FALSE),
                          options.cloudFrontKeyPairId_,
                          toISOString(expiresDate(now, options.downloadUrlDuration_)),
                          options.cloudFrontKeyPrivateKey_)
     IN SetOp(p, [ops[p] EXCEPT
                    !.pc = "done", !.params = params,
                    !.result = [status |-> IF signed THEN "ok" ELSE "error",
                                error |-> IF signed THEN "" ELSE "rejected",
                                now |-> now, call |-> call]])
  /\ UnchangedFields
  /\ UNCHANGED <<options, nStarted, codec>>

NextSign ==
  \/ \E p \in Procs, file \in SignFiles : Start(p, "getPresignedDownloadUrl", file)
  \/ \E p \in Procs, response \in OpResponses : DistributionReturns(p, response)
  \/ \E p \in Procs, now \in Nows, signed \in BOOLEAN : Sign(p, now, signed)

SpecSign == InitSign /\ [][NextSign]_vars

----------------------------------------------------------------------------
(* Presigned download URLs of the keys that uploads returned. *)

SignUploadedOptions ==
  [protocol_ : {Https},
   s3_bucket : {BucketB},
   s3OriginPath_ : {Absent, PathAssets},
   domainName_ : {Absent},
   cacheBehaviorPathPattern_ : {NoPattern},
   cloudFrontDistributionId_ : {Absent, DistributionId},
   uploadOptions_ : [ACL : {UnsetACL}],
   downloadUrlDuration_ : {1},
   cloudFrontKeyPairId_ : {KeyPairId},
   cloudFrontKeyPrivateKey_ : {PrivateKey}]

InitSignUploaded == \E o \in SignUploadedOptions : Constructed(o)

\* The files uploaded: a plain name and a name with a directory.
NamedFiles == {[originalname |-> NameA], [originalname |-> NameDir]}

\* getPresignedDownloadUrl of the key that the upload in slot q wrote and
\* returned, up to the await in initAwsGlobals.
StartSignUploaded(p, q) ==
  /\ ops[q].kind = "upload"
  /\ ops[q].pc = "done"
  /\ ops[q].result.status = "ok"
  /\ Start(p, "getPresignedDownloadUrl", [fileKey |-> ops[q].params.Key])

NextSignUploaded ==
  \/ \E p \in Procs, file \in NamedFiles : Start(p, "upload", file)
  \/ \E p, q \in Procs : StartSignUploaded(p, q)
  \/ \E p \in Procs, response \in OpResponses : DistributionReturns(p, response)
  \/ \E p \in Procs : SendPut(p)
  \/ \E p \in Procs, data \in S3Outcomes : PutReturns(p, data)
  \/ \E p \in Procs, outcome \in {"ok", "rejected"} : InvalidationReturns(p, outcome)
  \/ \E p \in Procs : InvalidationSkipped(p)
  \/ \E p \in Procs, now \in Nows, signed \in BOOLEAN : Sign(p, now, signed)

SpecSignUploaded == InitSignUploaded /\ [][NextSignUploaded]_vars

----------------------------------------------------------------------------
(* The claims on the configuration resolution and the codec (SpecCodec). *)

\* The descriptor of the latest run of initAwsGlobals, when it fetched one.
FetchedDescriptor == lastInit.run /\ lastInit.fetched /\ IsDescriptor(lastInit.response)
LastDistribution == lastInit.response.Distribution
LastConfig == LastDistribution.DistributionConfig

\* C1: after any configuration resolution, whenever the resolved cache
\* behavior and the resolved storage origin are both present, the cache
\* behavior's TargetOriginId is the storage origin's Id.
C1_TargetOriginMatches ==
  (lastInit.run /\ IsCacheBehavior(cacheBehavior_) /\ IsOrigin(s3Origin_))
    => cacheBehavior_.TargetOriginId = s3Origin_.Id

\* C2: every run of initAwsGlobals, whatever the descriptor, the preferences
\* and the outcome of the fetch, completes without throwing and leaves
\* baseUrl_, s3Origin_ and cacheBehavior_ assigned.
C2_InitCompletes ==
  lastInit.run =>
    /\ ~lastInit.threw
    /\ baseUrl_ # Absent
    /\ s3Origin_ # Undefined
    /\ cacheBehavior_ # Undefined

\* A run on a descriptor with no S3 origin, no default cache behavior and
\* no aliases.
C2_Witness ==
  /\ FetchedDescriptor
  /\ S3Origins(LastConfig) = << >>
  /\ LastConfig.DefaultCacheBehavior = Undefined
  /\ LastConfig.Aliases = << >>
  /\ baseUrl_ # Absent
  /\ s3Origin_ # Undefined

WildcardOverAssets ==
  /\ IsCacheBehavior(cacheBehavior_)
  /\ cacheBehavior_.PathPattern = "*"
  /\ OriginPathOf(s3Origin_) = PathAssets

\* C3: with a wildcard cache behavior and the origin path /assets, for every
\* logical name the key obtained back from the absolute URL of the key is
\* the key.
C3_RoundTrip ==
  (codec.applied /\ codec.file # Null /\ WildcardOverAssets)
    => codec.keyFromUrl = codec.key

C3_Witness ==
  /\ codec.applied
  /\ codec.file # Null
  /\ WildcardOverAssets
  /\ codec.key = <<"a","s","s","e","t","s","/">> \o NameA
  /\ codec.url = baseUrl_ \o <<"/">> \o NameA
  /\ codec.keyFromUrl = codec.key

\* C5: whenever the descriptor is fetched, the base URL is the scheme with
\* domain_name if it is supplied and among the aliases, and otherwise with
\* the distribution's own domain name.
C5_BaseUrl ==
  FetchedDescriptor =>
    baseUrl_ = options.protocol_ \o SchemeSep \o
                 (IF /\ Truthy(options.domainName_)
                     /\ Includes(LastConfig.Aliases, options.domainName_)
                    THEN options.domainName_
                    ELSE LastDistribution.DomainName)

\* The storage-eligible origins of the fetched descriptor, in order.
C6_Eligible ==
  SelectSeq(LastConfig.Origins, LAMBDA o : EndsWith(o.DomainName, S3Suffix))

\* The indices of the eligible origins with the origin path s3_origin_path,
\* and of those the default cache behavior targets.
C6_WithPath ==
  {i \in 1..Len(C6_Eligible) : C6_Eligible[i].OriginPath = options.s3OriginPath_}

C6_DefaultTargets ==
  IF LastConfig.DefaultCacheBehavior = Undefined THEN {}
  ELSE {i \in 1..Len(C6_Eligible) :
          C6_Eligible[i].Id = LastConfig.DefaultCacheBehavior.TargetOriginId}

C6_Expected ==
  IF Truthy(options.s3OriginPath_) /\ C6_WithPath # {}
    THEN C6_Eligible[Min(C6_WithPath)]
  ELSE IF C6_DefaultTargets # {}
    THEN C6_Eligible[Min(C6_DefaultTargets)]
  ELSE C6_Eligible[1]

\* C6: when the descriptor has a storage-eligible origin, the resolved
\* origin is storage-eligible and is the first eligible origin with the
\* origin path s3_origin_path if that is supplied and there is one, and
\* otherwise the eligible origin that the default cache behavior targets, or
\* the first eligible origin if it targets none.
C6_StorageOrigin ==
  (FetchedDescriptor /\ Len(C6_Eligible) > 0) =>
    /\ IsOrigin(s3Origin_)
    /\ EndsWith(s3Origin_.DomainName, S3Suffix)
    /\ s3Origin_ = C6_Expected

\* An s3_origin_path that matches no origin keeps the origin of the default
\* cache behavior, which is not the first eligible one.
C6_Witness ==
  /\ FetchedDescriptor
  /\ options.s3OriginPath_ = PathX
  /\ Len(C6_Eligible) = 2
  /\ LastConfig.DefaultCacheBehavior # Undefined
  /\ s3Origin_ = C6_Eligible[2]
  /\ s3Origin_.Id = LastConfig.DefaultCacheBehavior.TargetOriginId

\* C12: with a distribution configured, when the fetch of the descriptor
\* fails the resolved base URL, storage origin and cache behavior are those
\* that the branch without a distribution produces for the same preferences
\* (domain_name included).
C12_FetchFailureIsNoCdn ==
  (lastInit.run /\ lastInit.fetched /\ lastInit.response \in FailedResponses) =>
    Cfg = setDefaults(options.protocol_, options.s3_bucket, options.s3OriginPath_,
                      options.domainName_)

\* The codec was applied under a resolved cache behavior with pattern '*'.
C23_Wildcard ==
  /\ codec.applied
  /\ IsCacheBehavior(cacheBehavior_)
  /\ cacheBehavior_.PathPattern = "*"

\* s without its prefix pre, if it has that prefix.
C23_Without(s, pre) ==
  IF Len(pre) <= Len(s) /\ SubSeq(s, 1, Len(pre)) = pre
    THEN SubSeq(s, Len(pre) + 1, Len(s))
    ELSE s

\* C23 (as stated): under a cache behavior with the pattern '*', the
\* relative path of the URL of a key k is '/' + k.
C23_RelativeIsSlashKey ==
  C23_Wildcard => codec.relativeUrl = <<"/">> \o codec.key

\* C23 (amended): under a cache behavior with the pattern '*', the relative
\* path of the URL of a key k is '/' + k less the origin path of the resolved
\* storage origin, where '/' + k begins with it; it is '/' + k when there is
\* no origin path; and the URL is the base URL followed by that path.
C23_RelativeIsStripped ==
  C23_Wildcard =>
    /\ codec.relativeUrl = C23_Without(<<"/">> \o codec.key, OriginPathOf(s3Origin_))
    /\ codec.url = baseUrl_ \o codec.relativeUrl

\* The key assets/a.png under a wildcard cache behavior over /assets has the
\* relative path /a.png.
C23_Witness ==
  /\ C23_Wildcard
  /\ OriginPathOf(s3Origin_) = PathAssets
  /\ codec.key = <<"a","s","s","e","t","s","/">> \o NameA
  /\ codec.relativeUrl = <<"/">> \o NameA

\* The codec was applied with no cache behavior resolved, or with one whose
\* pattern is not '*'.
C24_NoWildcard ==
  /\ codec.applied
  /\ (IsCacheBehavior(cacheBehavior_) => cacheBehavior_.PathPattern # "*")

\* C24: with no resolved cache behavior, or one whose pattern is not '*',
\* the relative path of a key is '/' + key and its URL is the base URL + '/'
\* + key; and the key of that URL is the URL less the base URL and one
\* leading slash, the origin path not being put back.
C24_NoRewrite ==
  C24_NoWildcard =>
    /\ codec.relativeUrl = <<"/">> \o codec.key
    /\ codec.url = baseUrl_ \o <<"/">> \o codec.key
    /\ codec.keyFromUrl = SubSeq(codec.url, Len(baseUrl_) + 2, Len(codec.url))

\* A key and its URL under a cache behavior with the pattern img/* over the
\* origin path /assets.
C24_Witness ==
  /\ C24_NoWildcard
  /\ OriginPathOf(s3Origin_) = PathAssets
  /\ codec.key = <<"a","s","s","e","t","s","/">> \o NameA
  /\ codec.url = baseUrl_ \o <<"/","a","s","s","e","t","s","/">> \o NameA
  /\ codec.keyFromUrl = codec.key
  /\ IsCacheBehavior(cacheBehavior_)
  /\ cacheBehavior_.PathPattern = PatternImg

\* C25: every key that getKeyFromFile builds, whatever the origin path (two
\* leading slashes and a trailing slash included) and the name, is relative
\* to the root of the bucket: it does not begin with '/'.
C25_KeyIsRelative ==
  codec.applied => (codec.key = << >> \/ Head(codec.key) # "/")

\* The indices of the cache behaviors of the fetched descriptor that have
\* the supplied path pattern.
C18_WithPattern ==
  {i \in 1..Len(LastConfig.CacheBehaviors) :
     LastConfig.CacheBehaviors[i].PathPattern = options.cacheBehaviorPathPattern_}

\* The pattern is supplied, and a cache behavior of the descriptor has it
\* and targets the resolved storage origin.
C18_Overrides ==
  /\ options.cacheBehaviorPathPattern_ # NoPattern
  /\ IsOrigin(s3Origin_)
  /\ \E i \in C18_WithPattern :
       LastConfig.CacheBehaviors[i].TargetOriginId = s3Origin_.Id

\* C18: when the descriptor is fetched, the path pattern of the resolved
\* cache behavior is the supplied pattern if it is supplied and a cache
\* behavior of the descriptor has it and targets the resolved storage origin,
\* and '*' in every other case.
C18_PathPattern ==
  FetchedDescriptor =>
    /\ IsCacheBehavior(cacheBehavior_)
    /\ cacheBehavior_.PathPattern =
         (IF C18_Overrides THEN options.cacheBehaviorPathPattern_ ELSE "*")

----------------------------------------------------------------------------
(* The claims on the storage operations (Spec). *)

IsUpload(op) == op.kind = "upload"
IsDelete(op) == op.kind = "delete"

\* The key of one logical name under an origin path.
C4_Key(originPath, name) ==
  IF originPath = << >> THEN name
  ELSE (IF Head(originPath) = "/" THEN Tail(originPath) ELSE originPath)
         \o <<"/">> \o name

\* C4: without a distribution and without domain_name, the key of an upload
\* is the logical name, prefixed with the origin path less its leading slash
\* and a slash if there is an origin path, and the URL it returns is
\* scheme://bucket.s3.amazonaws.com/key.
C4_NoCdnKeyAndUrl ==
  (/\ ~Truthy(options.cloudFrontDistributionId_)
   /\ ~Truthy(options.domainName_)
   /\ Truthy(options.s3_bucket)) =>
    \A p \in Procs :
      LET op == ops[p]
          key == C4_Key(options.s3OriginPath_, op.file.originalname)
      IN IsUpload(op) =>
           /\ op.params # Null => op.params.Key = key
           /\ op.result.status = "ok" =>
                op.result.url =
                  options.protocol_ \o SchemeSep \o options.s3_bucket \o S3Suffix
                    \o <<"/">> \o key

C4_Witness ==
  /\ ~Truthy(options.cloudFrontDistributionId_)
  /\ ~Truthy(options.domainName_)
  /\ \E p \in Procs :
       /\ IsUpload(ops[p])
       /\ ops[p].file.originalname = NameA
       /\ options.s3OriginPath_ = PathAssets
       /\ ops[p].result.status = "ok"
       /\ ops[p].params.Key = <<"a","s","s","e","t","s","/","a",".","p","n","g">>
       /\ ops[p].result.url =
            <<"h","t","t","p","s",":","/","/","b">> \o S3Suffix
              \o <<"/","a","s","s","e","t","s","/","a",".","p","n","g">>

\* C7: an upload whose invalidation request is rejected returns, as it does
\* when the request succeeds, the absolute URL of its key.
C7_InvalidationFailureAbsorbed ==
  [][\A p \in Procs :
       (ops[p].pc = "createInvalidation" /\ ops'[p].pc = "done") =>
         /\ ops'[p].result.status = "ok"
         /\ ops'[p].result.url = getUrlFromKey(Cfg, ops[p].params.Key, FALSE)]_vars

C7_Witness ==
  \E p \in Procs :
    /\ IsUpload(ops[p])
    /\ ops[p].data = "result"
    /\ ops[p].invalidation = "rejected"
    /\ ops[p].pc = "done"
    /\ ops[p].result.status = "ok"

\* C8: delete never sends an invalidation request, and when the delete
\* reports no result it fails with 'File deletion failed'.
C8_DeleteNoInvalidation ==
  \A p \in Procs :
    IsDelete(ops[p]) =>
      /\ ops[p].invalidations = << >>
      /\ ops[p].invalidation = "none"
      /\ (ops[p].pc = "done" /\ ops[p].data = "none") =>
           ops[p].result = Failure("File deletion failed")

C8_Witness ==
  /\ Truthy(options.cloudFrontDistributionId_)
  /\ \E p \in Procs :
       /\ IsDelete(ops[p])
       /\ ops[p].pc = "done"
       /\ ops[p].data = "none"
       /\ ops[p].result = Failure("File deletion failed")

\* C9: an upload whose write reports no result fails with 'File upload
\* failed', returns no URL and sends no invalidation request; a request is
\* only sent after a write that reported a result.
C9_UploadFailed ==
  \A p \in Procs :
    IsUpload(ops[p]) =>
      /\ ops[p].data = "none" =>
           /\ ops[p].pc = "done"
           /\ ops[p].result = Failure("File upload failed")
           /\ ops[p].invalidations = << >>
      /\ ops[p].invalidations # << >> => ops[p].data = "result"

C9_Witness ==
  /\ Truthy(options.cloudFrontDistributionId_)
  /\ \E p \in Procs :
       /\ IsUpload(ops[p])
       /\ ops[p].data = "none"
       /\ ops[p].result = Failure("File upload failed")

\* The path that follows the base URL in the URL an upload returned.
ReturnedPath(result) ==
  SubSeq(result.url, Len(result.baseUrl) + 1, Len(result.url))

\* C10: every successful upload with a distribution sends exactly one
\* invalidation request, for the path (URI-encoded) that follows the base URL
\* in the URL it returns; without a distribution it sends none.
C10_InvalidationMatchesUrl ==
  \A p \in Procs :
    (IsUpload(ops[p]) /\ ops[p].result.status = "ok") =>
      IF Truthy(options.cloudFrontDistributionId_)
        THEN /\ Len(ops[p].invalidations) = 1
             /\ ops[p].invalidations[1] = encodeURI(ReturnedPath(ops[p].result))
        ELSE ops[p].invalidations = << >>

\* C15: the invalidation request of an upload is attempted only after the
\* upload has returned its result to the caller.
C15_InvalidationAfterReturn ==
  \A p \in Procs :
    (IsUpload(ops[p]) /\ ops[p].invalidation = "pending") =>
      ops[p].result.status = "ok"

\* C16: once a run of initAwsGlobals has completed, no operation calls
\* getDistribution again.
C16_FetchOnlyWhileUnresolved ==
  [][lastInit.run =>
       \A p \in Procs :
         ops'[p].pc = "getDistribution" => ops[p].pc = "getDistribution"]_vars

\* What a service just constructed from the same options resolves when its
\* run of initAwsGlobals sees the outcome the latest run saw.
C20_Fresh == initAwsGlobals(options, options.s3_bucket, Undefined, lastInit.response)

\* C20: the base URL, bucket, storage origin and cache behavior left by a
\* resolution depend only on the constructor options and on the outcome of
\* that resolution's fetch: they are those of any other service with the same
\* options whose latest resolution saw the same outcome, in particular of one
\* that resolved nothing before.
C20_ConfigIsFunction ==
  lastInit.run =>
    /\ baseUrl_ = C20_Fresh.baseUrl_
    /\ bucketName_ = C20_Fresh.bucketName_
    /\ s3Origin_ = C20_Fresh.s3Origin_
    /\ cacheBehavior_ = C20_Fresh.cacheBehavior_

----------------------------------------------------------------------------
(* The claims on the upload options (SpecAcl). *)

\* C11: the ACL of the write of a protected upload is 'private' whatever
\* ACL the upload options configure; the ACL of the write of an unprotected
\* upload is the configured ACL if one is set and 'public-read' otherwise.
C11_EffectiveAcl ==
  \A p \in Procs :
    (ops[p].kind \in UploadKinds /\ ops[p].params # Null) =>
      ops[p].params.ACL =
        (IF ops[p].kind = "uploadProtected" THEN "private"
         ELSE IF options.uploadOptions_.ACL # UnsetACL THEN options.uploadOptions_.ACL
         ELSE "public-read")

\* A protected upload written as private under a configured ACL, next to an
\* unprotected upload written with the configured ACL.
C11_Witness ==
  /\ options.uploadOptions_.ACL = "authenticated-read"
  /\ ops["t1"].kind = "uploadProtected"
  /\ ops["t1"].data = "result"
  /\ ops["t1"].params.ACL = "private"
  /\ ops["t2"].kind = "upload"
  /\ ops["t2"].data = "result"
  /\ ops["t2"].params.ACL = "authenticated-read"

----------------------------------------------------------------------------
(* The claims on presigned download URLs (SpecSign). *)

IsSign(op) == op.kind = "getPresignedDownloadUrl"

\* The key getPresignedDownloadUrl derives from a file key under cfg.
C13_DerivedKey(cfg, fileKey) ==
  getKeyFromFile(cfg, [originalname |-> LastSegment(fileKey)])

\* C13: getPresignedDownloadUrl calls the S3 signer, with expiresIn the
\* download URL duration, exactly when no distribution is configured, and the
\* CloudFront signer exactly when one is; the expiry it then passes is the
\* current time plus the duration in seconds, and the URL it signs is the
\* URL of the derived key.
C13_SignerChoice ==
  [][\A p \in Procs :
       (IsSign(ops[p]) /\ ops[p].pc = "resolved" /\ ops'[p].pc = "done") =>
         LET call == ops'[p].result.call
         IN IF ~Truthy(options.cloudFrontDistributionId_)
              THEN /\ call.signer = "getS3SignedUrl"
                   /\ call.expiresIn = options.downloadUrlDuration_
              ELSE /\ call.signer = "getCloudFrontSignedUrl"
                   /\ call.dateLessThan =
                        toISOString(ops'[p].result.now
                                      + 1000 * options.downloadUrlDuration_)
                   /\ call.url =
                        getUrlFromKey(Cfg, C13_DerivedKey(Cfg, ops[p].file.fileKey),
                                      FALSE)]_vars

\* A URL signed by CloudFront, for an expiry two seconds after 1500 ms, under
\* a wildcard cache behavior over /assets.
C13_Witness ==
  \E p \in Procs :
    /\ IsSign(ops[p])
    /\ ops[p].pc = "done"
    /\ ops[p].result.status = "ok"
    /\ ops[p].result.call.signer = "getCloudFrontSignedUrl"
    /\ ops[p].result.call.dateLessThan = toISOString(3500)
    /\ ops[p].params.Key = <<"a","s","s","e","t","s","/">> \o NameA
    /\ ops[p].result.call.url = <<"h","t","t","p","s",":","/","/">> \o CfDomain
                                   \o <<"/">> \o NameA

\* C14: with a distribution configured and the key-pair id or the private
\* key absent, getPresignedDownloadUrl fails with a SigningFailed error and
\* does not call the CloudFront signer.
C14_SigningFailed ==
  \A p \in Procs :
    (/\ IsSign(ops[p])
     /\ ops[p].pc = "done"
     /\ Truthy(options.cloudFrontDistributionId_)
     /\ (~Truthy(options.cloudFrontKeyPairId_)
           \/ ~Truthy(options.cloudFrontKeyPrivateKey_))) =>
      ops[p].result = Failure("SigningFailed")

----------------------------------------------------------------------------
(* The claims under a CloudFront outage (SpecOutage). *)

\* The results of an upload or delete that are its normal result or an
\* error of its own S3 request.
C17_StorageResult(op) ==
  \/ op.result.status = "ok"
  \/ op.result \in {Failure("rejected"), Failure("File upload failed"),
                    Failure("File deletion failed")}

\* C17: when every GetDistribution request fails, every upload and delete
\* that waits for the descriptor eventually sends its S3 request, and every
\* operation that sent it eventually completes with its normal result or the
\* error of its S3 request; none ever fails on the configuration.
C17_OutageDoesNotBlock ==
  /\ [](\A p \in Procs : ops[p].result # Failure("configuration"))
  /\ \A p \in Procs :
       (ops[p].pc = "getDistribution") ~> (ops[p].pc \in {"putObject", "deleteObject"})
  /\ \A p \in Procs :
       (ops[p].pc \in {"putObject", "deleteObject"})
         ~> (ops[p].pc = "done" /\ C17_StorageResult(ops[p]))

\* An upload that completed with its URL after a rejected GetDistribution.
C17_Witness ==
  /\ Truthy(options.cloudFrontDistributionId_)
  /\ lastInit.run /\ lastInit.fetched /\ lastInit.response = Rejected
  /\ \E p \in Procs :
       /\ IsUpload(ops[p])
       /\ ops[p].pc = "done"
       /\ ops[p].result.status = "ok"

----------------------------------------------------------------------------
(* The claims on the bucket of the S3 requests (SpecBucket). *)

\* Whether the resolved storage origin is an origin of a descriptor (the
\* origin that setDefaults synthesizes has the empty Id).
C19_Selected(origin) == IsOrigin(origin) /\ origin.Id # ""

\* The bucket name of an origin: its domain name less '.s3.amazonaws.com'.
C19_BucketOf(origin) == ReplaceFirst(origin.DomainName, S3Suffix, << >>)

\* The pcs at which an S3 request has just been sent.
C19_Requests == {"putObject", "deleteObject", "getObject"}

\* C19: a resolution that selects a storage origin from the descriptor
\* leaves as bucket name the name derived from that origin's domain name,
\* configured bucket or not; nothing but such a resolution changes the bucket
\* name; and every put, get and delete is sent to the bucket name of the
\* moment, hence to the bucket of the latest origin selected before it.
C19_OriginBucketWins ==
  [][/\ C19_Selected(s3Origin_') => bucketName_' = C19_BucketOf(s3Origin_')
     /\ bucketName_' # bucketName_ => C19_Selected(s3Origin_')
     /\ \A p \in Procs :
          (ops[p].pc = "resolved" /\ ops'[p].pc \in C19_Requests) =>
            ops'[p].params.Bucket = bucketName_]_vars

\* With the bucket b configured: a put sent to the bucket c of the origin
\* that an earlier resolution selected, after a later resolution whose fetch
\* was rejected; and a get sent to c as well.
C19_Witness ==
  /\ options.s3_bucket = BucketB
  /\ lastInit.run /\ lastInit.fetched /\ lastInit.response = Rejected
  /\ ops["t1"].kind = "upload"
  /\ ops["t1"].pc = "putObject"
  /\ ops["t1"].params.Bucket = BucketC
  /\ ops["t2"].kind = "getDownloadStream"
  /\ ops["t2"].pc = "getObject"
  /\ ops["t2"].params.Bucket = BucketC

----------------------------------------------------------------------------
(* The claims on concurrent operations (SpecTwin, Spec). *)

\* The runs of initAwsGlobals of two operations that run one after the
\* other on a service just constructed, both fetches giving the outcome of
\* the latest run.
C21_First == initAwsGlobals(options, options.s3_bucket, Undefined, lastInit.response)
C21_Second ==
  initAwsGlobals(options, C21_First.bucketName_, C21_First.cloudFrontDistribution_,
                 lastInit.response)

\* Whether what the upload op has produced so far is what an upload of the
\* same file produces under the configuration cfg.
C21_AsUnder(op, cfg) ==
  LET key == getKeyFromFile(cfg, op.file)
  IN /\ op.params # Null => op.params.Key = key
     /\ op.invalidations # << >> =>
          op.invalidations = <<encodeURI(getUrlFromKey(cfg, key, TRUE))>>
     /\ op.result.status = "ok" => op.result.url = getUrlFromKey(cfg, key, FALSE)

\* C21: when two uploads start before the configuration is first resolved
\* and their fetches give the same outcome, under every interleaving each
\* produces the key, the invalidation path and the URL that it produces when
\* the two run one after the other (in one order or the other), and the
\* configuration is that of a single resolution.
C21_SameAsSequential ==
  lastInit.run =>
    /\ \E first \in Procs :
         \A p \in Procs :
           IsUpload(ops[p]) =>
             C21_AsUnder(ops[p], IF p = first THEN C21_First ELSE C21_Second)
    /\ baseUrl_ = C21_First.baseUrl_
    /\ s3Origin_ = C21_First.s3Origin_
    /\ cacheBehavior_ = C21_First.cacheBehavior_
    /\ bucketName_ = C21_First.bucketName_

\* Both uploads returned their URLs after one invalidation each, under a
\* descriptor whose origin replaced the configured bucket name.
C21_Witness ==
  /\ lastInit.run
  /\ IsDescriptor(lastInit.response)
  /\ IsOrigin(s3Origin_)
  /\ options.s3_bucket # bucketName_
  /\ \A p \in Procs :
       /\ IsUpload(ops[p])
       /\ ops[p].pc = "done"
       /\ ops[p].result.status = "ok"
       /\ Len(ops[p].invalidations) = 1
  /\ ops["t1"].file # ops["t2"].file

\* C26: getPresignedDownloadUrl of a key that an upload returned signs for
\* the object under that key: the key of the command handed to the signer,
\* from which the signed CloudFront URL is built, is the key passed in.
C26_SignsGivenKey ==
  \A p \in Procs :
    (IsSign(ops[p]) /\ ops[p].pc = "done") =>
      ops[p].params.Key = ops[p].file.fileKey

\* The configurations that a run of initAwsGlobals of this service can leave.
C22_Configurations ==
  {initAwsGlobals(options, bucketName, Undefined, response) :
     bucketName \in {Absent, BucketB, BucketC}, response \in OpResponses}

\* C22: the key an upload wrote, the path it invalidated and the URL it
\* returned are those of one and the same resolved configuration, also when
\* other operations resolve the configuration anew while the upload is
\* suspended.
C22_OneConfiguration ==
  \A p \in Procs :
    (IsUpload(ops[p]) /\ ops[p].result.status = "ok") =>
      \E cfg \in C22_Configurations : C21_AsUnder(ops[p], cfg)

\* The three fields are those that one fetched descriptor gives: an S3 origin
\* of the descriptor, a base URL on the distribution's domain name or one of
\* its aliases, and a cache behavior of the descriptor or the default one
\* over an origin of the descriptor.
C27_FromDescriptor ==
  \E response \in OpResponses :
    /\ IsDescriptor(response)
    /\ LET distribution == response.Distribution
           config == distribution.DistributionConfig
       IN /\ \E i \in 1..Len(config.Origins) :
               /\ s3Origin_ = config.Origins[i]
               /\ EndsWith(config.Origins[i].DomainName, S3Suffix)
          /\ \/ baseUrl_ = options.protocol_ \o SchemeSep \o distribution.DomainName
             \/ \E i \in 1..Len(config.Aliases) :
                  baseUrl_ = options.protocol_ \o SchemeSep \o config.Aliases[i]
          /\ IsCacheBehavior(cacheBehavior_)
          /\ \/ \E i \in 1..Len(config.CacheBehaviors) :
                  cacheBehavior_ = config.CacheBehaviors[i]
             \/ /\ cacheBehavior_.PathPattern = "*"
                /\ cacheBehavior_.TargetOriginId \in IdsOf(config.Origins)

\* The three fields are defaults: no cache behavior, no storage origin or
\* the one synthesized from s3_origin_path, and a base URL on domain_name or
\* on a bucket's S3 domain.
C27_Defaults ==
  /\ cacheBehavior_ = Null
  /\ \/ s3Origin_ = Null
     \/ /\ IsOrigin(s3Origin_)
        /\ s3Origin_.Id = ""
        /\ s3Origin_.OriginPath = options.s3OriginPath_
        /\ Truthy(options.s3OriginPath_)
  /\ \/ /\ Truthy(options.domainName_)
        /\ baseUrl_ = options.protocol_ \o SchemeSep \o options.domainName_
     \/ /\ EndsWith(baseUrl_, S3Suffix)
        /\ SubSeq(baseUrl_, 1, Len(options.protocol_) + Len(SchemeSep))
             = options.protocol_ \o SchemeSep

\* C27: wherever an operation reads the configuration, after its
\* initAwsGlobals and at every later suspension point under every
\* interleaving, the base URL, the storage origin and the cache behavior
\* either all come from one fetched descriptor or are all defaults.
C27_NoMix ==
  lastInit.run => (C27_FromDescriptor \/ C27_Defaults)

\* An upload suspended at its invalidation request, which built its key
\* under a descriptor, while the fields are the defaults that another
\* operation's rejected fetch left.
C27_Witness ==
  /\ lastInit.run
  /\ lastInit.response = Rejected
  /\ C27_Defaults
  /\ ~Truthy(options.s3OriginPath_)
  /\ \E p \in Procs :
       /\ IsUpload(ops[p])
       /\ ops[p].pc = "createInvalidation"
       /\ ops[p].params.Key = <<"a","s","s","e","t","s","/">> \o NameA

====
